---- MODULE Spec2Model ----
(***************************************************************************)
(* The grammar-gender practice flow of src/app.py: the tables              *)
(* grammar_gender_questions, grammar_gender_sessions and                   *)
(* grammar_gender_attempts, and the request handlers                       *)
(* start_grammar_gender_practice, grammar_gender_question,                 *)
(* submit_grammar_gender_answer and grammar_gender_results.                *)
(*                                                                         *)
(* Every request opens its own sqlite3 connection.  A connection's writes  *)
(* stay in its own transaction until conn.commit(); SQLite lets one        *)
(* connection write at a time, and a connection dropped without a commit   *)
(* has its transaction rolled back.                                        *)
(*                                                                         *)
(* Spec     starts sessions and submits answers, one request at a time,    *)
(*          each handler as one action.                                    *)
(* SpecFlow adds the two reading handlers, on fewer inputs.                *)
(* SpecConc serves two requests at once, a handler as the steps between    *)
(*          which another connection can act.                              *)
(***************************************************************************)
EXTENDS Integers, Sequences, FiniteSets, TLC

(* ---------------------------- bounds ----------------------------------- *)
MaxSessions == 2        \* rows of grammar_gender_sessions
MaxAttempts == 2        \* rows of grammar_gender_attempts

(* ---------------------------- inputs ----------------------------------- *)
Users          == {1, 2}                    \* session['user_id'] of the caller
CountInputs    == {0, 1, 2}                 \* ?count= of the practice route
HintInputs     == {0, 1, 2, 3}              \* form field hints_used
AnswerInputs   == {"Masculin", "féminin"}   \* form field answer
QuestionInputs == {1, 3, 7}                 \* form field question_id (7: no row)
SessionInputs  == 1 .. MaxSessions + 1      \* <int:session_id> (the last: no row)
TimeInputs     == {4}                       \* form field time_taken
Conns          == {1, 2}                    \* connections open at the same time

\* str.lower() on the strings that occur
Lower(s) ==
    CASE s = "Masculin" -> "masculin"
      [] s = "MASCULIN" -> "masculin"
      [] s = "Féminin"  -> "féminin"
      [] s = "FÉMININ"  -> "féminin"
      [] OTHER          -> s

\* the two genders a question can have
ValidGenders == {"masculin", "féminin"}

\* genre_du_nom of the six sample questions, by AUTOINCREMENT id
SampleQuestions ==
    <<"masculin", "masculin", "féminin", "masculin", "féminin", "masculin">>

VARIABLES
    questions,      \* grammar_gender_questions: id -> genre_du_nom
    sessions,       \* grammar_gender_sessions, committed rows, id = index
    attempts,       \* grammar_gender_attempts, committed rows, id = index
    clock,          \* CURRENT_TIMESTAMP
    tx,             \* the open write transaction, NoTx if none
    req,            \* per connection: the request it is serving
    resp,           \* what the last finished request returned
    lessons,        \* lessons, id = index; a deleted row keeps its id unused
    student_progress    \* student_progress rows

vars == <<questions, sessions, attempts, clock, tx, req, resp, lessons,
          student_progress>>

Idle == [pc |-> "idle"]

NoTx == [owner |-> 0]

NoResp == [op |-> "none", kind |-> "none", session_id |-> 0,
           is_correct |-> FALSE, correct_answer |-> "", user_answer |-> "",
           points_earned |-> 0, session_complete |-> FALSE]

Init ==
    /\ questions = SampleQuestions
    /\ sessions = << >>
    /\ attempts = << >>
    /\ clock = 1
    /\ tx = NoTx
    /\ req = [c \in Conns |-> Idle]
    /\ resp = NoResp
    /\ lessons = << >>
    /\ student_progress = << >>

\* the NULL of a column left without a value
Null == [null |-> TRUE]

\* an unhandled exception: Flask answers 500
Raised(op, exception) == [NoResp EXCEPT !.op = op, !.kind = exception]

(* ------------------- start_grammar_gender_practice --------------------- *)
\* the same INSERT without the total_questions column, left to its default
NewSessionDefaultTotal(user_id, questions_count) ==
    [user_id |-> user_id, session_type |-> "practice",
     questions_count |-> questions_count, score |-> 0,
     total_questions |-> 0, completed_at |-> Null,
     status |-> "active"]

\* lines 1614-1617 and the column defaults of lines 253-266
NewSession(user_id, questions_count) ==
    [user_id |-> user_id, session_type |-> "practice",
     questions_count |-> questions_count, score |-> 0,
     total_questions |-> questions_count, completed_at |-> Null,
     status |-> "active"]

start_grammar_gender_practice(user_id, questions_count) ==
    /\ tx = NoTx
    /\ Len(sessions) < MaxSessions
    /\ sessions' = Append(sessions, NewSession(user_id, questions_count))
    /\ clock' = clock + 1
    /\ resp' = [NoResp EXCEPT !.op = "start", !.kind = "redirect",
                              !.session_id = Len(sessions) + 1]
    /\ UNCHANGED <<questions, attempts, tx, req, lessons, student_progress>>

\* the INSERT of line 1614 while another connection holds the write lock:
\* sqlite3 waits its timeout out and raises OperationalError
start_busy ==
    /\ tx # NoTx
    /\ resp' = Raised("start", "OperationalError")
    /\ UNCHANGED <<questions, sessions, attempts, clock, tx, req, lessons, student_progress>>

(* -------------------- submit_grammar_gender_answer --------------------- *)
\* the same count when only the correct attempts are counted
CountCorrectAttempts(rows, sid) ==
    Cardinality({i \in DOMAIN rows :
                    rows[i].session_id = sid /\ rows[i].is_correct})

\* SELECT COUNT of grammar_gender_attempts WHERE session_id = ?
CountAttempts(rows, sid) ==
    Cardinality({i \in DOMAIN rows : rows[i].session_id = sid})

\* lines 1706-1709: base 10 points, -5 points per hint used
QuestionScore(is_correct, hints_used) ==
    IF ~is_correct THEN 0 ELSE 10 - (hints_used * 5)

\* the same locals when the answer is compared letter for letter
ScoredExact(session_id, question_id, user_answer, time_taken, hints_used) ==
    LET correct_answer == questions[question_id]
        is_correct == user_answer = correct_answer
    IN  [pc |-> "insert", session_id |-> session_id,
         question_id |-> question_id, user_answer |-> user_answer,
         time_taken |-> time_taken, hints_used |-> hints_used,
         correct_answer |-> correct_answer,
         is_correct |-> is_correct,
         question_score |-> QuestionScore(is_correct, hints_used)]

\* lines 1683-1709: the handler's locals once the answer is scored
Scored(session_id, question_id, user_answer, time_taken, hints_used) ==
    LET correct_answer == questions[question_id]
        is_correct == Lower(user_answer) = Lower(correct_answer)
    IN  [pc |-> "insert", session_id |-> session_id,
         question_id |-> question_id, user_answer |-> user_answer,
         time_taken |-> time_taken, hints_used |-> hints_used,
         correct_answer |-> correct_answer,
         is_correct |-> is_correct,
         question_score |-> QuestionScore(is_correct, hints_used)]

\* a value of a TIMESTAMP column: the text CURRENT_TIMESTAMP gives
Timestamp(t) == [timestamp |-> t]

\* lines 1712-1716: INSERT INTO grammar_gender_attempts; attempted_at takes
\* its default of line 279
InsertAttempt(rows, r) ==
    Append(rows, [session_id |-> r.session_id, question_id |-> r.question_id,
                  user_answer |-> r.user_answer, is_correct |-> r.is_correct,
                  time_taken |-> r.time_taken, hints_used |-> r.hints_used,
                  score |-> r.question_score,
                  attempted_at |-> Timestamp(clock)])

\* UpdateScore without its WHERE id = ? would be: every session gets the points
UpdateScoreAll(rows, r) ==
    [i \in DOMAIN rows |-> [rows[i] EXCEPT !.score = @ + r.question_score]]

\* UpdateScore as SET score = ? would be: the points overwrite the total
UpdateScoreOverwrite(rows, r) ==
    [i \in DOMAIN rows |->
        IF i = r.session_id
        THEN [rows[i] EXCEPT !.score = r.question_score]
        ELSE rows[i]]

\* lines 1719-1723: UPDATE grammar_gender_sessions SET score = score + ?
UpdateScore(rows, r) ==
    [i \in DOMAIN rows |->
        IF i = r.session_id
        THEN [rows[i] EXCEPT !.score = @ + r.question_score]
        ELSE rows[i]]

\* the same comparison, one submission late
SessionCompleteLate(answered_count, total_questions) ==
    answered_count > total_questions

\* lines 1745 and 1749
SessionComplete(answered_count, total_questions) ==
    answered_count >= total_questions

\* MarkCompleted as an UPDATE that parks a session short of its threshold
MarkCompletedOrPaused(rows, session_id, answered_count, total_questions) ==
    IF SessionComplete(answered_count, total_questions)
    THEN [rows EXCEPT ![session_id].status = "completed",
                      ![session_id].completed_at = Timestamp(clock)]
    ELSE [rows EXCEPT ![session_id].status = "paused"]

\* MarkCompleted as a status recomputed on every submission would be:
\* completed at the threshold, active at any other count
MarkCompletedOrActive(rows, session_id, answered_count, total_questions) ==
    IF answered_count = total_questions
    THEN [rows EXCEPT ![session_id].status = "completed",
                      ![session_id].completed_at = Timestamp(clock)]
    ELSE [rows EXCEPT ![session_id].status = "active"]

\* lines 1749-1755: UPDATE ... SET status = 'completed', completed_at = now
MarkCompleted(rows, session_id, answered_count, total_questions) ==
    IF SessionComplete(answered_count, total_questions)
    THEN [rows EXCEPT ![session_id].status = "completed",
                      ![session_id].completed_at = Timestamp(clock)]
    ELSE rows

\* lines 1711-1755 on the committed tables: the tables as the connection
\* leaves them in its transaction.  fetchone() gives None for an unknown
\* session_id and line 1730 raises TypeError, after the INSERT and the UPDATE.
Execute(r) ==
    LET a1 == InsertAttempt(attempts, r)
        s1 == UpdateScore(sessions, r)
        answered_count == CountAttempts(a1, r.session_id)
    IN  IF r.session_id \notin DOMAIN s1
        THEN [raised |-> TRUE, sessions |-> s1, attempts |-> a1,
              session_complete |-> FALSE]
        ELSE LET total_questions == s1[r.session_id].total_questions
             IN  [raised |-> FALSE,
                  sessions |-> MarkCompleted(s1, r.session_id, answered_count,
                                             total_questions),
                  attempts |-> a1,
                  session_complete |->
                      SessionComplete(answered_count, total_questions)]

\* lines 1733-1747 and 1760: jsonify(response_data)
JsonResponse(r, session_complete) ==
    [op |-> "submit", kind |-> "json", session_id |-> r.session_id,
     is_correct |-> r.is_correct, correct_answer |-> r.correct_answer,
     user_answer |-> r.user_answer, points_earned |-> r.question_score,
     session_complete |-> session_complete]

\* The whole handler, no other connection writing.  fetchone() gives None
\* for an unknown question_id and line 1697 raises TypeError; an exception
\* leaves the handler before conn.commit() and the transaction is rolled back.
submit_grammar_gender_answer(session_id, question_id, user_answer, time_taken, hints_used) ==
    /\ tx = NoTx
    /\ Len(attempts) < MaxAttempts
    /\ IF question_id \notin DOMAIN questions
       THEN /\ resp' = Raised("submit", "TypeError")
            /\ UNCHANGED <<sessions, attempts, clock>>
       ELSE LET r == Scored(session_id, question_id, user_answer, time_taken,
                            hints_used)
                e == Execute(r)
            IN  IF e.raised
                THEN /\ resp' = Raised("submit", "TypeError")
                     /\ UNCHANGED <<sessions, attempts, clock>>
                ELSE /\ sessions' = e.sessions
                     /\ attempts' = e.attempts
                     /\ clock' = clock + 1
                     /\ resp' = JsonResponse(r, e.session_complete)
    /\ UNCHANGED <<questions, tx, req, lessons, student_progress>>

(* ---- submit_grammar_gender_answer, step by step on a connection c ----- *)
InFlight == Cardinality({c \in Conns : req[c].pc # "idle"})

\* lines 1683-1709: the form is read, the question fetched, the answer scored
submit_read(c, session_id, question_id, user_answer, time_taken, hints_used) ==
    /\ req[c].pc = "idle"
    /\ Len(attempts) + InFlight < MaxAttempts
    /\ IF question_id \notin DOMAIN questions
       THEN /\ resp' = Raised("submit", "TypeError")
            /\ UNCHANGED req
       ELSE /\ req' = [req EXCEPT ![c] =
                 Scored(session_id, question_id, user_answer, time_taken,
                        hints_used)]
            /\ UNCHANGED resp
    /\ UNCHANGED <<questions, sessions, attempts, clock, tx, lessons, student_progress>>

\* lines 1711-1755: the INSERT begins the connection's transaction and takes
\* the write lock; nothing of it is visible to other connections before the
\* commit
submit_execute(c) ==
    /\ req[c].pc = "insert"
    /\ tx = NoTx
    /\ LET e == Execute(req[c])
       IN  /\ tx' = [owner |-> c, sessions |-> e.sessions,
                     attempts |-> e.attempts]
           /\ req' = [req EXCEPT ![c] =
                 [req[c] EXCEPT !.pc = IF e.raised THEN "raised" ELSE "commit"]
                 @@ [session_complete |-> e.session_complete]]
    /\ UNCHANGED <<questions, sessions, attempts, clock, resp, lessons, student_progress>>

\* line 1757: conn.commit()
submit_commit(c) ==
    /\ req[c].pc = "commit"
    /\ tx.owner = c
    /\ sessions' = tx.sessions
    /\ attempts' = tx.attempts
    /\ tx' = NoTx
    /\ clock' = clock + 1
    /\ req' = [req EXCEPT ![c].pc = "return"]
    /\ UNCHANGED <<questions, resp, lessons, student_progress>>

\* lines 1758-1760: conn.close() and the JSON response
submit_return(c) ==
    /\ req[c].pc = "return"
    /\ resp' = JsonResponse(req[c], req[c].session_complete)
    /\ req' = [req EXCEPT ![c] = Idle]
    /\ UNCHANGED <<questions, sessions, attempts, clock, tx, lessons, student_progress>>

\* the TypeError of line 1730 leaves the handler: the connection is dropped
\* without a commit and SQLite rolls its transaction back
submit_abort(c) ==
    /\ req[c].pc = "raised"
    /\ tx.owner = c
    /\ tx' = NoTx
    /\ resp' = Raised("submit", "TypeError")
    /\ req' = [req EXCEPT ![c] = Idle]
    /\ UNCHANGED <<questions, sessions, attempts, clock, lessons, student_progress>>

\* the INSERT of line 1712 while another connection holds the write lock:
\* sqlite3 waits its timeout out and raises OperationalError
submit_busy(c) ==
    /\ req[c].pc = "insert"
    /\ tx # NoTx
    /\ resp' = Raised("submit", "OperationalError")
    /\ req' = [req EXCEPT ![c] = Idle]
    /\ UNCHANGED <<questions, sessions, attempts, clock, tx, lessons, student_progress>>

(* ----------------------- grammar_gender_question ----------------------- *)
\* Python's round(num / den) for den > 0: to the nearest integer, a half to
\* the even one
RoundHalfEven(num, den) ==
    LET q == (2 * num + den) \div (2 * den)
    IN  IF (2 * num + den) % (2 * den) = 0 /\ q % 2 = 1 THEN q - 1 ELSE q

\* round((a / b) * 100) of lines 1668, 1802 and 1803
Percentage(a, b) ==
    IF b > 0 THEN RoundHalfEven(100 * a, b) ELSE RoundHalfEven(-100 * a, -b)

\* lines 1635-1637 and 1772-1776: ... WHERE id = ? AND user_id = ?
OwnSession(session_id, user_id) ==
    /\ session_id \in DOMAIN sessions
    /\ sessions[session_id].user_id = user_id

\* the same query when only the correctly answered questions are left out
UnansweredOrWrong(session_id) ==
    {q \in DOMAIN questions :
        \A i \in DOMAIN attempts :
            ~(attempts[i].session_id = session_id /\ attempts[i].question_id = q
              /\ attempts[i].is_correct)}

\* lines 1644-1652: the questions whose id is NOT IN the session's attempts
Unanswered(session_id) ==
    {q \in DOMAIN questions :
        \A i \in DOMAIN attempts :
            ~(attempts[i].session_id = session_id /\ attempts[i].question_id = q)}

\* lines 1625-1675.  ORDER BY RANDOM() LIMIT 1 serves any unanswered
\* question; session_data[3] is the questions_count column, and line 1668
\* divides by it.
grammar_gender_question(session_id, user_id) ==
    /\ IF ~OwnSession(session_id, user_id)
       THEN resp' = [op |-> "question", kind |-> "not_found"]
       ELSE IF Unanswered(session_id) = {}
       THEN resp' = [op |-> "question", kind |-> "redirect_results",
                     session_id |-> session_id]
       ELSE \E question \in Unanswered(session_id) :
              LET answered_count == CountAttempts(attempts, session_id)
                  total == sessions[session_id].questions_count
              IN  IF total = 0
                  THEN resp' = Raised("question", "ZeroDivisionError")
                  ELSE resp' = [op |-> "question", kind |-> "page",
                                session_id |-> session_id,
                                question |-> question,
                                current |-> answered_count + 1,
                                total |-> total,
                                percentage |-> Percentage(answered_count, total)]
    /\ UNCHANGED <<questions, sessions, attempts, clock, tx, req, lessons, student_progress>>

(* ----------------------- grammar_gender_results ------------------------ *)
\* the same rows when the query is not narrowed to one session
ResultRowsAllSessions(session_id) ==
    LET RECURSIVE Rows(_)
        Rows(i) ==
            IF i > Len(attempts) THEN << >>
            ELSE (IF attempts[i].session_id \in DOMAIN sessions
                  THEN << <<i, attempts[i].session_id, attempts[i].question_id,
                            attempts[i].user_answer, attempts[i].is_correct,
                            attempts[i].time_taken, attempts[i].hints_used,
                            attempts[i].score, attempts[i].attempted_at,
                            "nom", questions[attempts[i].question_id],
                            "exemple">> >>
                  ELSE << >>) \o Rows(i + 1)
    IN  Rows(1)

\* lines 1783-1790: SELECT ga.*, gq.nom, gq.genre_du_nom, ... of the session,
\* in the column order of CREATE TABLE (lines 270-279): attempt[0] is here
\* row[1]
ResultRows(session_id) ==
    LET RECURSIVE Rows(_)
        Rows(i) ==
            IF i > Len(attempts) THEN << >>
            ELSE (IF attempts[i].session_id = session_id
                  THEN << <<i, attempts[i].session_id, attempts[i].question_id,
                            attempts[i].user_answer, attempts[i].is_correct,
                            attempts[i].time_taken, attempts[i].hints_used,
                            attempts[i].score, attempts[i].attempted_at,
                            "nom", questions[attempts[i].question_id],
                            "exemple">> >>
                  ELSE << >>) \o Rows(i + 1)
    IN  Rows(1)

\* the columns of a result row that hold text: user_answer, attempted_at
\* (the text of a timestamp), nom, genre_du_nom, exemple_usage_courant
TextColumns == {4, 9, 10, 11, 12}

\* sum(...) of lines 1797-1800 over column k (attempt[k - 1]): 0 + text
\* raises TypeError, the sum of no rows is 0
RECURSIVE SumColumn(_, _)
SumColumn(rows, k) ==
    IF rows = << >> THEN 0 ELSE rows[1][k] + SumColumn(Tail(rows), k)

Summable(rows, k) == rows = << >> \/ k \notin TextColumns

\* lines 1792-1819: the statistics of the rows fetched, where summable says
\* whether sum(...) of line 1797 finds numbers in attempt[8]
ResultsPage(session_id, rows, summable) ==
    LET total_questions == Len(rows)
        correct_answers ==
            Cardinality({i \in DOMAIN rows : rows[i][5]})
    IN  IF ~summable
        THEN Raised("results", "TypeError")
        ELSE LET total_points == SumColumn(rows, 9)
                 max_possible_points == total_questions * 10
                 total_time == SumColumn(rows, 6)
                 total_hints == SumColumn(rows, 8)
             IN  [op |-> "results", kind |-> "page",
                  session_id |-> session_id,
                  score |-> correct_answers,
                  total |-> total_questions,
                  percentage |->
                      IF total_questions > 0
                      THEN Percentage(correct_answers, total_questions)
                      ELSE 0,
                  total_points |-> total_points,
                  max_possible_points |-> max_possible_points,
                  points_percentage |->
                      IF max_possible_points > 0
                      THEN Percentage(total_points, max_possible_points)
                      ELSE 0,
                  total_time |-> total_time,
                  total_hints |-> total_hints,
                  avg_time |->
                      IF total_questions > 0
                      THEN RoundHalfEven(total_time, total_questions)
                      ELSE 0]

\* the same view when it also closes the session it shows
grammar_gender_results_closing(session_id, user_id) ==
    /\ IF ~OwnSession(session_id, user_id)
       THEN resp' = [op |-> "results", kind |-> "not_found"] /\ sessions' = sessions
       ELSE LET rows == ResultRows(session_id)
            IN  /\ resp' = ResultsPage(session_id, rows, Summable(rows, 9))
                /\ sessions' = [sessions EXCEPT ![session_id].status = "completed"]
    /\ UNCHANGED <<questions, attempts, clock, tx, req, lessons, student_progress>>

\* lines 1762-1819, on a table made by the CREATE TABLE of lines 270-282
grammar_gender_results(session_id, user_id) ==
    /\ IF ~OwnSession(session_id, user_id)
       THEN resp' = [op |-> "results", kind |-> "not_found"]
       ELSE LET rows == ResultRows(session_id)
            IN  resp' = ResultsPage(session_id, rows, Summable(rows, 9))
    /\ UNCHANGED <<questions, sessions, attempts, clock, tx, req, lessons, student_progress>>

(* A database made before the scoring columns existed: its attempts table
   has the columns id, session_id, question_id, user_answer, is_correct,
   time_taken, attempted_at, and the ALTER TABLE statements of lines 289 and
   294 have put hints_used and score after them. *)
MigratedRows(session_id) ==
    LET RECURSIVE Rows(_)
        Rows(i) ==
            IF i > Len(attempts) THEN << >>
            ELSE (IF attempts[i].session_id = session_id
                  THEN << <<i, attempts[i].session_id, attempts[i].question_id,
                            attempts[i].user_answer, attempts[i].is_correct,
                            attempts[i].time_taken, attempts[i].attempted_at,
                            attempts[i].hints_used, attempts[i].score,
                            "nom", questions[attempts[i].question_id],
                            "exemple">> >>
                  ELSE << >>) \o Rows(i + 1)
    IN  Rows(1)

\* the columns of such a row that hold text
MigratedTextColumns == {4, 7, 10, 11, 12}

\* lines 1762-1819 on that table
grammar_gender_results_migrated(session_id, user_id) ==
    /\ IF ~OwnSession(session_id, user_id)
       THEN resp' = [op |-> "results", kind |-> "not_found"]
       ELSE LET rows == MigratedRows(session_id)
            IN  resp' = ResultsPage(session_id, rows,
                            rows = << >> \/ 9 \notin MigratedTextColumns)
    /\ UNCHANGED <<questions, sessions, attempts, clock, tx, req, lessons, student_progress>>

(* -------------------- add_grammar_gender_question ---------------------- *)
\* lines 1841-1879.  The sub_question_id "QAG1-n" is written n, and the
\* question with id n holds "QAG1-n", as the six samples do and as a seventh
\* added as "QAG1-7" does.  The UNIQUE of
\* line 239 and the CHECK of line 241 raise IntegrityError, which the
\* handler catches.
add_grammar_gender_question(role, sub_question_id, genre_du_nom) ==
    /\ tx = NoTx
    /\ IF role # "teacher"
       THEN /\ resp' = [op |-> "add_question", kind |-> "unauthorized"]
            /\ questions' = questions
       ELSE IF sub_question_id \in DOMAIN questions
               \/ genre_du_nom \notin ValidGenders
       THEN /\ resp' = [op |-> "add_question", kind |-> "IntegrityError"]
            /\ questions' = questions
       ELSE /\ resp' = [op |-> "add_question", kind |-> "redirect_manage"]
            /\ questions' = Append(questions, genre_du_nom)
    /\ UNCHANGED <<sessions, attempts, clock, tx, req, lessons, student_progress>>

(* ------------------------------ lessons -------------------------------- *)
MaxLessons  == 2
MaxProgress == 2

SubjectInputs == {"français", "mathématiques"}      \* form field subject
LessonInputs  == 1 .. MaxLessons + 1        \* <int:lesson_id> (the last: no row)

\* the rows of lessons that are stored, by id
Stored == {i \in DOMAIN lessons : lessons[i].present}

\* lines 817-819 and 971-973: (SELECT MAX(lesson_number) ... or 0) + 1
NextLessonNumber(subject) ==
    LET numbers == {lessons[i].lesson_number :
                       i \in {j \in Stored : lessons[j].subject = subject}}
    IN  IF numbers = {} THEN 1
        ELSE (CHOOSE m \in numbers : \A n \in numbers : n <= m) + 1

\* the requests of lessons and progress that connections are serving
LessonsInFlight ==
    Cardinality({c \in Conns : req[c].pc = "insert_lesson"})
ProgressInFlight ==
    Cardinality({c \in Conns : req[c].pc = "write_progress"})

\* lines 811-819: create_lesson reads the form and the largest number of the
\* subject; a SELECT opens no transaction
create_lesson_select(c, subject) ==
    /\ req[c].pc = "idle"
    /\ Len(lessons) + LessonsInFlight < MaxLessons
    /\ req' = [req EXCEPT ![c] =
          [pc |-> "insert_lesson", op |-> "create_lesson", subject |-> subject,
           lesson_number |-> NextLessonNumber(subject)]]
    /\ UNCHANGED <<questions, sessions, attempts, clock, tx, resp, lessons, student_progress>>

\* lines 953-973: duplicate_lesson fetches the original and reads the largest
\* number of its subject
duplicate_lesson_select(c, lesson_id) ==
    /\ req[c].pc = "idle"
    /\ Len(lessons) + LessonsInFlight < MaxLessons
    /\ IF lesson_id \notin Stored
       THEN /\ resp' = [op |-> "duplicate_lesson", kind |-> "not_found"]
            /\ UNCHANGED req
       ELSE /\ req' = [req EXCEPT ![c] =
                 [pc |-> "insert_lesson", op |-> "duplicate_lesson",
                  subject |-> lessons[lesson_id].subject,
                  lesson_number |->
                      NextLessonNumber(lessons[lesson_id].subject)]]
            /\ UNCHANGED resp
    /\ UNCHANGED <<questions, sessions, attempts, clock, tx, lessons, student_progress>>

\* lines 837-846 and 975-999: INSERT INTO lessons with the number read
\* before, and the commit
insert_lesson(c) ==
    /\ req[c].pc = "insert_lesson"
    /\ tx = NoTx
    /\ lessons' = Append(lessons, [lesson_number |-> req[c].lesson_number,
                                   subject |-> req[c].subject,
                                   present |-> TRUE])
    /\ resp' = [op |-> req[c].op, kind |-> "redirect",
                lesson_id |-> Len(lessons) + 1]
    /\ req' = [req EXCEPT ![c] = Idle]
    /\ UNCHANGED <<questions, sessions, attempts, clock, tx, student_progress>>

\* lines 1001-1033: the lesson and its progress rows go in one commit
delete_lesson(lesson_id) ==
    /\ tx = NoTx
    /\ IF lesson_id \notin Stored
       THEN /\ resp' = [op |-> "delete_lesson", kind |-> "not_found"]
            /\ UNCHANGED <<lessons, student_progress>>
       ELSE /\ lessons' = [lessons EXCEPT ![lesson_id].present = FALSE]
            /\ student_progress' =
                  SelectSeq(student_progress,
                            LAMBDA row : row.lesson_id # lesson_id)
            /\ resp' = [op |-> "delete_lesson", kind |-> "redirect"]
    /\ UNCHANGED <<questions, sessions, attempts, clock, tx, req>>

\* lines 1136-1156 and 1174: the bulk action 'delete' on the ids selected
bulk_actions(lesson_ids) ==
    /\ tx = NoTx
    /\ IF lesson_ids = {}
       THEN /\ resp' = [op |-> "bulk_actions", kind |-> "none_selected"]
            /\ UNCHANGED <<lessons, student_progress>>
       ELSE /\ lessons' = [i \in DOMAIN lessons |->
                  IF i \in lesson_ids
                  THEN [lessons[i] EXCEPT !.present = FALSE]
                  ELSE lessons[i]]
            /\ student_progress' =
                  SelectSeq(student_progress,
                            LAMBDA row : row.lesson_id \notin lesson_ids)
            /\ resp' = [op |-> "bulk_actions", kind |-> "redirect"]
    /\ UNCHANGED <<questions, sessions, attempts, clock, tx, req>>

\* lines 500-510: mark_complete looks for the progress row of the learner
\* and the lesson; whether the lesson exists is not looked at
mark_complete_select(c, user_id, lesson_id) ==
    /\ req[c].pc = "idle"
    /\ Len(student_progress) + ProgressInFlight < MaxProgress
    /\ req' = [req EXCEPT ![c] =
          [pc |-> "write_progress", user_id |-> user_id,
           lesson_id |-> lesson_id,
           existing |-> \E i \in DOMAIN student_progress :
                           /\ student_progress[i].user_id = user_id
                           /\ student_progress[i].lesson_id = lesson_id]]
    /\ UNCHANGED <<questions, sessions, attempts, clock, tx, resp, lessons, student_progress>>

\* lines 512-527: the UPDATE of the rows of the pair, or the INSERT of a row
\* if the SELECT found none, and the commit
mark_complete_write(c) ==
    /\ req[c].pc = "write_progress"
    /\ tx = NoTx
    /\ IF req[c].existing
       THEN student_progress' =
              [i \in DOMAIN student_progress |->
                  IF /\ student_progress[i].user_id = req[c].user_id
                     /\ student_progress[i].lesson_id = req[c].lesson_id
                  THEN [student_progress[i] EXCEPT !.completed = TRUE]
                  ELSE student_progress[i]]
       ELSE student_progress' =
              Append(student_progress,
                     [user_id |-> req[c].user_id,
                      lesson_id |-> req[c].lesson_id, completed |-> TRUE])
    /\ resp' = [op |-> "mark_complete", kind |-> "redirect",
                lesson_id |-> req[c].lesson_id]
    /\ req' = [req EXCEPT ![c] = Idle]
    /\ UNCHANGED <<questions, sessions, attempts, clock, tx, lessons>>

(* ------------------------- specifications ------------------------------ *)
Next ==
    \/ \E u \in Users, n \in CountInputs : start_grammar_gender_practice(u, n)
    \/ \E s \in SessionInputs, q \in QuestionInputs, a \in AnswerInputs,
          t \in TimeInputs, h \in HintInputs :
             submit_grammar_gender_answer(s, q, a, t, h)

Spec == Init /\ [][Next]_vars

\* the four handlers of the practice flow, one request at a time
FlowCounts  == {1}
FlowHints   == {0}
FlowAnswers == {"Masculin"}

NextFlow ==
    \/ \E u \in Users, n \in FlowCounts : start_grammar_gender_practice(u, n)
    \/ \E s \in SessionInputs, q \in QuestionInputs, a \in FlowAnswers,
          t \in TimeInputs, h \in FlowHints :
             submit_grammar_gender_answer(s, q, a, t, h)
    \/ \E s \in SessionInputs, u \in Users : grammar_gender_question(s, u)
    \/ \E s \in SessionInputs, u \in Users : grammar_gender_results(s, u)

SpecFlow == Init /\ [][NextFlow]_vars

\* the inputs of the requests served at the same time
ConcCounts  == {1}
ConcHints   == {0, 3}
ConcAnswers == {"Masculin"}

NextConc ==
    \/ \E n \in ConcCounts : start_grammar_gender_practice(1, n)
    \/ start_busy
    \/ \E c \in Conns, s \in SessionInputs, q \in QuestionInputs,
          a \in ConcAnswers, t \in TimeInputs, h \in ConcHints :
             submit_read(c, s, q, a, t, h)
    \/ \E c \in Conns : submit_execute(c)
    \/ \E c \in Conns : submit_commit(c)
    \/ \E c \in Conns : submit_return(c)
    \/ \E c \in Conns : submit_abort(c)
    \/ \E c \in Conns : submit_busy(c)

SpecConc == Init /\ [][NextConc]_vars

(* The scoring rules: both learners, sessions of one and of two questions,
   answers of either gender in either spelling of the first letter. *)
RuleCounts  == {1, 2}
RuleHints   == {0}
RuleAnswers == {"Masculin", "féminin"}

NextRule ==
    \/ \E u \in Users, n \in RuleCounts : start_grammar_gender_practice(u, n)
    \/ \E s \in SessionInputs, q \in QuestionInputs, a \in RuleAnswers,
          t \in TimeInputs, h \in RuleHints :
             submit_grammar_gender_answer(s, q, a, t, h)

SpecRule == Init /\ [][NextRule]_vars

(* Form fields outside their domain: request.form.get(..., type=int) takes a
   negative number of hints as it is, and user_answer is any string. *)
FormCounts  == {1}
FormHints   == {-1, 0}
FormAnswers == {"Masculin", "neutre"}

NextForm ==
    \/ \E n \in FormCounts : start_grammar_gender_practice(1, n)
    \/ \E s \in SessionInputs, q \in QuestionInputs, a \in FormAnswers,
          t \in TimeInputs, h \in FormHints :
             submit_grammar_gender_answer(s, q, a, t, h)

SpecForm == Init /\ [][NextForm]_vars

(* The results page of a session of three questions on a migrated table.
   The initial states are the states that learner 1 reaches by starting a
   session of three questions and answering the questions 1, 2, 3 in that
   order, none, one, two or all of them. *)
LegacyCount   == 3
LegacyAnswers == {"Masculin", "féminin"}
LegacyHints   == {0, 1}

\* the attempt that the i-th submission of such a session stores
LegacyAttempt(i, user_answer, hints_used) ==
    LET is_correct == Lower(user_answer) = Lower(SampleQuestions[i])
    IN  [session_id |-> 1, question_id |-> i, user_answer |-> user_answer,
         is_correct |-> is_correct, time_taken |-> 4,
         hints_used |-> hints_used,
         score |-> QuestionScore(is_correct, hints_used),
         attempted_at |-> Timestamp(i + 1)]

\* the session row after the submissions that stored rows
LegacySession(rows) ==
    LET RECURSIVE Points(_)
        Points(i) == IF i > Len(rows) THEN 0 ELSE rows[i].score + Points(i + 1)
        started == [NewSession(1, LegacyCount) EXCEPT !.score = Points(1)]
    IN  IF SessionComplete(Len(rows), LegacyCount)
        THEN [started EXCEPT !.status = "completed",
                             !.completed_at = Timestamp(Len(rows) + 1)]
        ELSE started

InitLegacy ==
    \E k \in 0 .. LegacyCount :
      \E a \in [1 .. k -> LegacyAnswers], h \in [1 .. k -> LegacyHints] :
        LET rows == [i \in 1 .. k |-> LegacyAttempt(i, a[i], h[i])]
        IN  /\ questions = SampleQuestions
            /\ sessions = <<LegacySession(rows)>>
            /\ attempts = rows
            /\ clock = k + 2
            /\ tx = NoTx
            /\ req = [c \in Conns |-> Idle]
            /\ resp = NoResp
            /\ lessons = << >>
            /\ student_progress = << >>

NextLegacy ==
    \E s \in SessionInputs, u \in Users : grammar_gender_results_migrated(s, u)

SpecLegacy == InitLegacy /\ [][NextLegacy]_vars

(* The question bank under the teacher's route. *)
BankCounts   == {1}
BankHints    == {0}
BankAnswers  == {"Masculin"}
RoleInputs   == {"student", "teacher"}
SubQuestionInputs == {6, 7}
GenreInputs  == {"féminin", "neutre"}

NextBank ==
    \/ \E n \in BankCounts : start_grammar_gender_practice(1, n)
    \/ \E s \in SessionInputs, q \in QuestionInputs, a \in BankAnswers,
          t \in TimeInputs, h \in BankHints :
             submit_grammar_gender_answer(s, q, a, t, h)
    \/ \E role \in RoleInputs, n \in SubQuestionInputs, g \in GenreInputs :
          add_grammar_gender_question(role, n, g)

SpecBank == Init /\ [][NextBank]_vars

(* One learner who works through one session: the learner starts it, asks
   for the next question and answers the question served, again and again,
   until the response of line 1746 sends the learner to the results.
   Fairness on the last two steps: the learner does not walk away. *)
LearnerCounts  == 0 .. MaxAttempts
LearnerAnswers == {"Masculin", "féminin"}
LearnerHints   == {0}

learner_starts ==
    /\ sessions = << >>
    /\ \E n \in LearnerCounts : start_grammar_gender_practice(1, n)

learner_asks ==
    \E s \in DOMAIN sessions :
        /\ sessions[s].status = "active"
        /\ grammar_gender_question(s, sessions[s].user_id)

learner_answers ==
    /\ resp.op = "question" /\ resp.kind = "page"
    /\ \E a \in LearnerAnswers, t \in TimeInputs, h \in LearnerHints :
          submit_grammar_gender_answer(resp.session_id, resp.question, a, t, h)

NextLearner == learner_starts \/ learner_asks \/ learner_answers

SpecLearner ==
    /\ Init /\ [][NextLearner]_vars
    /\ WF_vars(learner_asks) /\ WF_vars(learner_answers)

(* Lessons and progress, two connections at a time. *)
NextLesson ==
    \/ \E c \in Conns, subject \in SubjectInputs : create_lesson_select(c, subject)
    \/ \E c \in Conns, l \in LessonInputs : duplicate_lesson_select(c, l)
    \/ \E c \in Conns : insert_lesson(c)
    \/ \E l \in LessonInputs : delete_lesson(l)
    \/ \E ids \in SUBSET LessonInputs : bulk_actions(ids)
    \/ \E c \in Conns, u \in Users, l \in LessonInputs : mark_complete_select(c, u, l)
    \/ \E c \in Conns : mark_complete_write(c)

SpecLesson == Init /\ [][NextLesson]_vars

(* ------------------------------ claims --------------------------------- *)
\* the rows of a session's attempts for one question
HasAttempt(rows, session_id, question_id) ==
    \E i \in DOMAIN rows :
        rows[i].session_id = session_id /\ rows[i].question_id = question_id

\* the sum of the points of a session's attempts
RECURSIVE SumScore(_, _)
SumScore(rows, session_id) ==
    IF rows = << >> THEN 0
    ELSE (IF Head(rows).session_id = session_id THEN Head(rows).score ELSE 0)
         + SumScore(Tail(rows), session_id)

\* the scoring rule of the specification: 10 - 5 x hints, never below 0
ClampedPoints(is_correct, hints_used) ==
    IF ~is_correct THEN 0
    ELSE IF 10 - 5 * hints_used > 0 THEN 10 - 5 * hints_used ELSE 0

\* C1: every attempt with hints_used >= 0 stores max(0, 10 - 5 x hints_used)
\* points when correct and 0 when incorrect, and the response of the
\* submission returns the points stored
C1_PointsClamped ==
    /\ \A i \in DOMAIN attempts :
          attempts[i].hints_used >= 0 =>
             attempts[i].score =
                 ClampedPoints(attempts[i].is_correct, attempts[i].hints_used)
    /\ (resp.op = "submit" /\ resp.kind = "json") =>
          resp.points_earned = attempts[Len(attempts)].score

\* C2: no two attempts have the same (session_id, question_id)
C2_UniquePair ==
    \A i, j \in DOMAIN attempts :
        i # j => \/ attempts[i].session_id # attempts[j].session_id
                 \/ attempts[i].question_id # attempts[j].question_id

\* C3: a submission for a (session, question) that already has an attempt
\* ends in an error and leaves the sessions and the attempts as they were
C3_DuplicateRejected ==
    [][\A s \in SessionInputs, q \in QuestionInputs, a \in AnswerInputs,
          t \in TimeInputs, h \in HintInputs :
          (HasAttempt(attempts, s, q)
             /\ submit_grammar_gender_answer(s, q, a, t, h))
          => (resp'.kind # "json" /\ sessions' = sessions
              /\ attempts' = attempts)]_vars

\* C4: a session never has more attempts than questions requested
C4_AnsweredBounded ==
    \A s \in DOMAIN sessions :
        CountAttempts(attempts, s) <= sessions[s].total_questions

\* C5: in every committed state every session's score is the sum of the
\* points of its attempts
C5_ScoreIsSum ==
    \A s \in DOMAIN sessions : sessions[s].score = SumScore(attempts, s)

\* C5 witness: a session with committed points, and a second submission to it
\* whose points are written but not committed
C5_Witness ==
    /\ tx # NoTx
    /\ \E s \in DOMAIN sessions :
          /\ CountAttempts(attempts, s) >= 1
          /\ sessions[s].score # 0
          /\ tx.sessions[s].score # sessions[s].score

\* C6: no step makes a session's score smaller
C6_ScoreNonDecreasing ==
    [][\A s \in DOMAIN sessions : sessions'[s].score >= sessions[s].score]_vars

\* C7: a session goes from active to completed on the submission after which
\* its answered count equals its requested count, and on no other step; that
\* submission finds it active and leaves it completed with a completion time
C7_CompletedAtThreshold ==
    [][\A s \in DOMAIN sessions :
          LET before == CountAttempts(attempts, s)
              after  == CountAttempts(attempts', s)
              reaches == after = before + 1
                         /\ after = sessions[s].total_questions
          IN  /\ (sessions[s].status = "active"
                    /\ sessions'[s].status = "completed") => reaches
              /\ reaches => /\ sessions[s].status = "active"
                            /\ sessions'[s].status = "completed"
                            /\ sessions'[s].completed_at # Null]_vars

\* C8: a completed session stays completed in every step
C8_CompletedIsFinal ==
    [][\A s \in DOMAIN sessions :
          sessions[s].status = "completed"
              => sessions'[s].status = "completed"]_vars

\* C8 witness: a completed session that took a submission after completing
C8_Witness ==
    \E s \in DOMAIN sessions :
        /\ sessions[s].status = "completed"
        /\ CountAttempts(attempts, s) > sessions[s].total_questions

\* C9: of two submissions in flight at the same time for the same
\* (session, question), at most one gets as far as a committed attempt
C9_OneOfTwoSucceeds ==
    \A c, d \in Conns :
        (c # d /\ req[c].pc = "return" /\ req[d].pc = "return")
        => ~(req[c].session_id = req[d].session_id
             /\ req[c].question_id = req[d].question_id)

\* C10: a submission naming a question or a session that does not exist ends
\* in a not-found response and leaves the sessions and the attempts as they
\* were
C10_UnknownIdNotFound ==
    [][\A s \in SessionInputs, q \in QuestionInputs, a \in AnswerInputs,
          t \in TimeInputs, h \in HintInputs :
          ((q \notin DOMAIN questions \/ s \notin DOMAIN sessions)
             /\ submit_grammar_gender_answer(s, q, a, t, h))
          => (resp'.kind = "not_found" /\ sessions' = sessions
              /\ attempts' = attempts)]_vars

\* C11: a submission by a learner to a session that another learner owns
\* ends in a not-found response and leaves the sessions and the attempts as
\* they were.  The handler reads nothing of the caller beyond the presence of
\* a login, so a step of the handler is a step of every logged-in learner u.
C11_ForeignSessionRejected ==
    [][\A u \in Users, s \in SessionInputs, q \in QuestionInputs,
          a \in AnswerInputs, t \in TimeInputs, h \in HintInputs :
          (s \in DOMAIN sessions /\ sessions[s].user_id # u
             /\ submit_grammar_gender_answer(s, q, a, t, h))
          => (resp'.kind = "not_found" /\ sessions' = sessions
              /\ attempts' = attempts)]_vars

\* C12: a submission with a negative number of hints ends in an error and
\* leaves the sessions and the attempts as they were
C12_NegativeHintsRejected ==
    [][\A s \in SessionInputs, q \in QuestionInputs, a \in FormAnswers,
          t \in TimeInputs, h \in FormHints :
          (h < 0 /\ submit_grammar_gender_answer(s, q, a, t, h))
          => (resp'.kind # "json" /\ sessions' = sessions
              /\ attempts' = attempts)]_vars

\* C13: a start with a requested count of zero or less creates no session,
\* so every stored session has a requested count above zero
C13_PositiveRequestedCount ==
    /\ \A s \in DOMAIN sessions :
          sessions[s].questions_count > 0 /\ sessions[s].total_questions > 0
    /\ resp.op = "start" => sessions[resp.session_id].total_questions > 0

\* C14: a submission whose answer is neither gender, in any letter case, ends
\* in an error and leaves the sessions and the attempts as they were
C14_InvalidGenderRejected ==
    [][\A s \in SessionInputs, q \in QuestionInputs, a \in FormAnswers,
          t \in TimeInputs, h \in FormHints :
          (h >= 0 /\ Lower(a) \notin ValidGenders
             /\ submit_grammar_gender_answer(s, q, a, t, h))
          => (resp'.kind # "json" /\ sessions' = sessions
              /\ attempts' = attempts)]_vars

\* C15: a question served by the question page is one for which the session
\* it is served to has no attempt
C15_ServedIsUnanswered ==
    (resp.op = "question" /\ resp.kind = "page")
        => ~HasAttempt(attempts, resp.session_id, resp.question)

\* C15 witness: a question is served to a session that has an attempt, and
\* the question served has an attempt in another session
C15_Witness ==
    /\ resp.op = "question" /\ resp.kind = "page"
    /\ CountAttempts(attempts, resp.session_id) >= 1
    /\ \E i \in DOMAIN attempts :
          /\ attempts[i].session_id # resp.session_id
          /\ attempts[i].question_id = resp.question

\* C16: the question page of a learner's own session serves no question and
\* sends the learner to the results whenever the session's answered count has
\* reached its requested count, and whenever the session has an attempt for
\* every question of the bank
C16_NoMoreAtThreshold ==
    [][\A s \in SessionInputs, u \in Users :
          (/\ OwnSession(s, u)
           /\ \/ CountAttempts(attempts, s) >= sessions[s].total_questions
              \/ Unanswered(s) = {}
           /\ grammar_gender_question(s, u))
          => resp'.kind = "redirect_results"]_vars

C17_PendingWitness ==
    /\ resp.op = "submit" /\ resp.kind = "json" /\ ~resp.session_complete
    /\ sessions[resp.session_id].total_questions = 2
    /\ CountAttempts(attempts, resp.session_id) = 1

\* C18: the results page of a learner's own session that has no attempt
\* shows 0 questions, 0 correct, accuracy 0, 0 points of 0 possible, points
\* percentage 0 and average time 0, and raises nothing
C18_EmptySummary ==
    [][\A s \in SessionInputs, u \in Users :
          (OwnSession(s, u) /\ CountAttempts(attempts, s) = 0
             /\ grammar_gender_results(s, u))
          => /\ resp'.kind = "page"
             /\ resp'.total = 0 /\ resp'.score = 0 /\ resp'.percentage = 0
             /\ resp'.total_points = 0 /\ resp'.max_possible_points = 0
             /\ resp'.points_percentage = 0 /\ resp'.avg_time = 0]_vars

\* C18 witness: the results page of a session without attempts is shown
\* while another session has an attempt
C18_Witness ==
    /\ resp.op = "results" /\ resp.kind = "page"
    /\ CountAttempts(attempts, resp.session_id) = 0
    /\ attempts # << >>

\* C19: a start adds exactly one session, owned by the caller, active, with
\* score 0, no attempts and the requested count asked for, and leaves every
\* other session and every attempt as it was
C19_StartCreatesOne ==
    [][\A u \in Users, n \in RuleCounts :
          start_grammar_gender_practice(u, n)
          => LET new == Len(sessions) + 1
             IN  /\ Len(sessions') = new
                 /\ \A s \in DOMAIN sessions : sessions'[s] = sessions[s]
                 /\ attempts' = attempts
                 /\ sessions'[new].user_id = u
                 /\ sessions'[new].status = "active"
                 /\ sessions'[new].score = 0
                 /\ sessions'[new].completed_at = Null
                 /\ sessions'[new].questions_count = n
                 /\ sessions'[new].total_questions = n
                 /\ CountAttempts(attempts', new) = 0
                 /\ resp'.session_id = new]_vars

\* C19 witness: a second session has just been started while the first one,
\* of the other learner, has points and is completed
C19_Witness ==
    /\ resp.op = "start" /\ Len(sessions) = 2
    /\ sessions[1].user_id # sessions[2].user_id
    /\ sessions[1].score > 0 /\ sessions[1].status = "completed"
    /\ sessions[2].score = 0 /\ sessions[2].status = "active"

\* the spellings of each gender that differ in letter case only
CaseClasses ==
    {{"masculin", "Masculin", "MASCULIN"}, {"féminin", "Féminin", "FÉMININ"}}

\* two strings equal when letter case is ignored
SameIgnoringCase(a, b) ==
    a = b \/ \E class \in CaseClasses : a \in class /\ b \in class

\* C20: an attempt is correct exactly when its answer equals the gender of
\* its question, letter case ignored, and the response of a submission
\* returns the flag stored in its attempt
C20_CorrectIffSameGender ==
    /\ \A i \in DOMAIN attempts :
          attempts[i].is_correct =
              SameIgnoringCase(attempts[i].user_answer,
                               questions[attempts[i].question_id])
    /\ (resp.op = "submit" /\ resp.kind = "json") =>
          resp.is_correct = attempts[Len(attempts)].is_correct

\* C20 witness: a submission whose answer differs from the gender of its
\* question in letter case only has just been stored and returned as
\* correct, after one stored as incorrect
C20_Witness ==
    /\ resp.op = "submit" /\ resp.kind = "json" /\ resp.is_correct
    /\ Len(attempts) = 2
    /\ attempts[2].is_correct
    /\ attempts[2].user_answer # questions[attempts[2].question_id]
    /\ ~attempts[1].is_correct

\* the sum of one column over a session's attempts
RECURSIVE SumOf(_, _, _)
SumOf(rows, session_id, column) ==
    IF rows = << >> THEN 0
    ELSE (IF Head(rows).session_id = session_id THEN Head(rows)[column] ELSE 0)
         + SumOf(Tail(rows), session_id, column)

\* C21: the results page of a learner's own session reports the number of
\* the session's attempts, the number of them marked correct, the sum of
\* their points (which is the session's score), 10 points possible per
\* attempt, the sum of their hints and the sum of their times
C21_SummaryTotals ==
    [][\A s \in SessionInputs, u \in Users :
          (OwnSession(s, u) /\ grammar_gender_results(s, u))
          => /\ resp'.kind = "page"
             /\ resp'.total = CountAttempts(attempts, s)
             /\ resp'.score =
                   Cardinality({i \in DOMAIN attempts :
                       attempts[i].session_id = s /\ attempts[i].is_correct})
             /\ resp'.total_points = SumOf(attempts, s, "score")
             /\ resp'.total_points = sessions[s].score
             /\ resp'.max_possible_points = 10 * CountAttempts(attempts, s)
             /\ resp'.total_hints = SumOf(attempts, s, "hints_used")
             /\ resp'.total_time = SumOf(attempts, s, "time_taken")]_vars

\* the distance between two integers
Distance(a, b) == IF a >= b THEN a - b ELSE b - a

\* C22: the accuracy on the results page is correct / total x 100 rounded to
\* one decimal place, that is, within 0.05 of the quotient, and 0 when the
\* session has no attempt
C22_AccuracyOneDecimal ==
    [][\A s \in SessionInputs, u \in Users :
          (OwnSession(s, u) /\ grammar_gender_results_migrated(s, u))
          => /\ resp'.kind = "page"
             /\ IF resp'.total = 0
                THEN resp'.percentage = 0
                ELSE 2 * Distance(10 * resp'.percentage * resp'.total,
                                  1000 * resp'.score) <= resp'.total]_vars

\* C23: a step that answers with the question page or with the results
\* page, whatever the answer, leaves every session, every attempt and every
\* question as it was
C23_ViewsReadOnly ==
    [][resp'.op \in {"question", "results"}
          => UNCHANGED <<sessions, attempts, questions>>]_vars

\* C23 witness: the results page of an active session has been shown and the
\* session is still active, while another session is completed with points
C23_Witness ==
    /\ resp.op = "results" /\ resp.kind = "page"
    /\ sessions[resp.session_id].status = "active"
    /\ \E s \in DOMAIN sessions :
          /\ sessions[s].status = "completed"
          /\ sessions[s].score > 0
          /\ CountAttempts(attempts, s) >= 1

\* C24: a step changes a session's row or its number of attempts only by
\* committing one new attempt of that session; it changes no attempt stored
\* before, so a submission to one session leaves every other session and its
\* attempts as they were, however the submissions interleave
C24_SessionsIndependent ==
    [][/\ Len(attempts') >= Len(attempts)
       /\ SubSeq(attempts', 1, Len(attempts)) = attempts
       /\ \A o \in DOMAIN sessions :
             (\/ sessions'[o] # sessions[o]
              \/ CountAttempts(attempts', o) # CountAttempts(attempts, o))
             => /\ Len(attempts') = Len(attempts) + 1
                /\ attempts'[Len(attempts')].session_id = o]_vars

\* C24 witness: two submissions to two different sessions were in flight at
\* the same time and both are committed, each session holding its own points
C24_Witness ==
    /\ Len(attempts) = 2 /\ Len(sessions) = 2
    /\ attempts[1].session_id # attempts[2].session_id
    /\ \A i \in 1 .. 2 :
          /\ attempts[i].score # 0
          /\ sessions[attempts[i].session_id].score = attempts[i].score
    /\ \A c \in Conns : req[c].pc = "return"

\* C25: the questions are in every reachable state the questions the
\* database was seeded with
C25_BankReadOnly == questions = SampleQuestions

\* C26: the status of every session is active or completed, never paused
C26_NeverPaused ==
    \A s \in DOMAIN sessions : sessions[s].status \in {"active", "completed"}

\* C26 witness: a session that took a submission short of its requested
\* count is active, next to a completed one
C26_Witness ==
    \E s, o \in DOMAIN sessions :
        /\ sessions[s].status = "active"
        /\ CountAttempts(attempts, s) = 1
        /\ sessions[o].status = "completed"

\* a session whose requested count is above zero and within the bank
Feasible(s) ==
    /\ s \in DOMAIN sessions
    /\ sessions[s].total_questions > 0
    /\ sessions[s].total_questions <= Len(questions)

ProgressRows(user_id, lesson_id) ==
    {i \in DOMAIN student_progress :
        /\ student_progress[i].user_id = user_id
        /\ student_progress[i].lesson_id = lesson_id}

\* C28: student_progress never holds a second row for a (learner, lesson),
\* and the row that mark_complete has written for a pair is marked completed
C28_OneProgressRow ==
    \A u \in Users, l \in LessonInputs :
        /\ Cardinality(ProgressRows(u, l)) <= 1
        /\ \A i \in ProgressRows(u, l) : student_progress[i].completed
        /\ (resp.op = "mark_complete" /\ resp.lesson_id = l
              /\ \A c \in Conns : req[c].pc = "idle")
           => \E v \in Users : Cardinality(ProgressRows(v, l)) = 1

\* C29: no progress row is of a lesson that has been deleted; a delete of a
\* lesson, alone or in bulk, removes the lesson and the progress rows of it
\* in one step and leaves the other lessons and the other progress rows as
\* they were; a delete of a lesson that is not stored changes nothing
C29_DeleteLeavesNoProgress ==
    /\ [](\A i \in DOMAIN student_progress :
             ~(/\ student_progress[i].lesson_id \in DOMAIN lessons
               /\ ~lessons[student_progress[i].lesson_id].present))
    /\ [][/\ \A l \in LessonInputs :
                delete_lesson(l)
                => IF l \in Stored
                   THEN /\ ~lessons'[l].present
                        /\ \A j \in DOMAIN lessons :
                              j # l => lessons'[j] = lessons[j]
                        /\ student_progress' =
                              SelectSeq(student_progress,
                                        LAMBDA row : row.lesson_id # l)
                   ELSE UNCHANGED <<lessons, student_progress>>
          /\ \A ids \in SUBSET LessonInputs :
                (ids # {} /\ bulk_actions(ids))
                => /\ \A j \in DOMAIN lessons :
                         IF j \in ids THEN ~lessons'[j].present
                                      ELSE lessons'[j] = lessons[j]
                   /\ student_progress' =
                         SelectSeq(student_progress,
                                   LAMBDA row : row.lesson_id \notin ids)]_vars

\* C30: no two stored lessons of one subject have the same lesson_number
C30_DistinctLessonNumbers ==
    \A i, j \in Stored :
        (i # j /\ lessons[i].subject = lessons[j].subject)
            => lessons[i].lesson_number # lessons[j].lesson_number
====
